---- MODULE Spec2Model ----
(***************************************************************************)
(* Adaptive radix tree (package adaptive): the node helpers of             *)
(* src/unnamed/part_001 and the tree engine that drives them.              *)
(*                                                                         *)
(* Go arrays and slices are functions over 0..n-1, so every index below is *)
(* the index the Go code uses.  A node is a record; a child slot holds a   *)
(* node record or NIL.  An index that is out of range in the Go code is a  *)
(* run-time panic: it is modelled as the PANIC result, never skipped.      *)
(***************************************************************************)
EXTENDS Integers, Sequences, FiniteSets, TLC

\* ------------------------------------------------------------------ bytes
\* The terminator byte '$' that getTreeKey appends.
Dollar == 36
\* Length of the explicit prefix buffer of a node header.
maxPrefixLen == 10

min(a, b) == IF a < b THEN a ELSE b

\* key[i] of a Go byte slice held as a TLA+ sequence.
At(key, i) == key[i + 1]
InRange(key, i) == i >= 0 /\ i < Len(key)

\* bytes.Compare(a, b) = 0
BytesEqual(a, b) == a = b

\* ------------------------------------------------------------------ nodes
NIL == [kind |-> "nil"]
PANIC == [kind |-> "panic"]
ZeroPartial == [i \in 0..(maxPrefixLen - 1) |-> 0]

\* allocNode: a fresh node of the requested kind, partial zero-filled and
\* partialLen set to maxPrefixLen; child storage empty.
allocNode(ntype) ==
    CASE ntype = "leaf" ->
           [kind |-> "leaf", partial |-> ZeroPartial, partialLen |-> maxPrefixLen,
            numChildren |-> 0, key |-> <<>>, value |-> 0]
      [] ntype = "node4" ->
           [kind |-> "node4", partial |-> ZeroPartial, partialLen |-> maxPrefixLen,
            numChildren |-> 0, keys |-> [i \in 0..3 |-> 0],
            children |-> [i \in 0..3 |-> NIL]]
      [] ntype = "node16" ->
           [kind |-> "node16", partial |-> ZeroPartial, partialLen |-> maxPrefixLen,
            numChildren |-> 0, keys |-> [i \in 0..15 |-> 0],
            children |-> [i \in 0..15 |-> NIL]]
      [] ntype = "node48" ->
           [kind |-> "node48", partial |-> ZeroPartial, partialLen |-> maxPrefixLen,
            numChildren |-> 0, keys |-> [i \in 0..255 |-> 0],
            children |-> [i \in 0..47 |-> NIL]]
      [] ntype = "node256" ->
           [kind |-> "node256", partial |-> ZeroPartial, partialLen |-> maxPrefixLen,
            numChildren |-> 0, children |-> [i \in 0..255 |-> NIL]]

\* makeLeaf: a leaf owning a copy of the (tree) key and the value.
makeLeaf(key, value) ==
    [allocNode("leaf") EXCEPT !.key = key, !.value = value]

isLeaf(n) == n.kind = "leaf"

\* Faulty variant of copyHeader: the prefix length is not copied.
\* C17_AddChild fails with it.
copyHeaderNoLen(dest, src) ==
    LET length == min(maxPrefixLen, src.partialLen)
    IN  [dest EXCEPT !.numChildren = src.numChildren,
                     !.partial = [i \in 0..(maxPrefixLen - 1) |->
                                    IF i < length THEN src.partial[i]
                                    ELSE dest.partial[i]]]

\* copyHeader(dest, src): numChildren, partialLen and the first
\* min(maxPrefixLen, partialLen) bytes of partial.
copyHeader(dest, src) ==
    LET length == min(maxPrefixLen, src.partialLen)
    IN  [dest EXCEPT !.numChildren = src.numChildren,
                     !.partialLen = src.partialLen,
                     !.partial = [i \in 0..(maxPrefixLen - 1) |->
                                    IF i < length THEN src.partial[i]
                                    ELSE dest.partial[i]]]

\* ------------------------------------------------------------ key codec
getTreeKey(key) == Append(key, Dollar)

\* Faulty variant of getKey: returns the tree key with its terminator.
\* C15_CodecRoundTrip fails with it.
getKeyWhole(key) == key

getKey(key) == IF Len(key) = 0 THEN <<>> ELSE SubSeq(key, 1, Len(key) - 1)

\* --------------------------------------------------------- prefix checks
RECURSIVE MismatchScan(_, _, _, _, _)
\* The loop "for ; idx < maxCmp; idx++ { if a[idx] != key[depth+idx] return idx }"
\* with a given as a function of idx.
MismatchScan(a, key, depth, idx, maxCmp) ==
    IF idx >= maxCmp THEN idx
    ELSE IF a[idx] # At(key, depth + idx) THEN idx
    ELSE MismatchScan(a, key, depth, idx + 1, maxCmp)

checkPrefix(n, key, keyLen, depth) ==
    LET maxCmp == min(min(n.partialLen, maxPrefixLen), keyLen - depth)
    IN  MismatchScan(n.partial, key, depth, 0, maxCmp)

\* Faulty variant of leafMatches: compares the lengths only. C5_Update fails
\* with it.
leafMatchesLengthOnly(n, key, keyLen) ==
    IF Len(n.key) # keyLen THEN 1 ELSE 0

\* Faulty variant of leafMatches: accepts a leaf whose key is a prefix of the
\* key looked for. C9_DeleteAbsentNoOp fails with it.
leafMatchesPrefix(n, key, keyLen) ==
    IF Len(n.key) > keyLen THEN 1
    ELSE IF \A i \in 1..Len(n.key) : n.key[i] = key[i] THEN 0 ELSE 1

leafMatches(n, key, keyLen) ==
    IF Len(n.key) # keyLen THEN 1
    ELSE IF BytesEqual(n.key, key) THEN 0 ELSE 1

longestCommonPrefix(l1, l2, depth) ==
    LET maxCmp == IF Len(l1.key) < Len(l2.key) THEN Len(l1.key) - depth
                  ELSE Len(l2.key) - depth
    IN  MismatchScan([i \in 0..(Len(l1.key) - depth - 1) |-> At(l1.key, depth + i)],
                     l2.key, depth, 0, maxCmp)

\* ------------------------------------------------------- minimum/maximum
\* The first index >= idx, below limit, at which f is not "empty"; limit if
\* there is none: the scans "for idx < 256 && f[idx] == empty { idx++ }".
RECURSIVE ScanUp(_, _, _, _)
ScanUp(f, empty, idx, limit) ==
    IF idx >= limit THEN idx
    ELSE IF f[idx] # empty THEN idx
    ELSE ScanUp(f, empty, idx + 1, limit)

\* The scan "for idx >= 0 && children[idx] == nil { idx-- }".  Reading
\* children[idx] with idx outside the array panics: the result is then -2.
RECURSIVE ScanDown(_, _)
ScanDown(children, idx) ==
    IF idx < 0 THEN idx
    ELSE IF idx \notin DOMAIN children THEN -2
    ELSE IF children[idx].kind # "nil" THEN idx
    ELSE ScanDown(children, idx - 1)

RECURSIVE minimum(_)
minimum(n) ==
    IF n.kind = "nil" THEN NIL
    ELSE IF n.kind = "panic" THEN PANIC
    ELSE IF isLeaf(n) THEN n
    ELSE CASE n.kind = "node4" -> minimum(n.children[0])
           [] n.kind = "node16" -> minimum(n.children[0])
           [] n.kind = "node48" ->
                LET idx == ScanUp(n.keys, 0, 0, 256)
                IN  IF idx \notin DOMAIN n.keys THEN PANIC
                    ELSE LET slot == (n.keys[idx] - 1) % 256
                         IN  IF slot < 48 THEN minimum(n.children[slot]) ELSE NIL
           [] n.kind = "node256" ->
                LET idx == ScanUp(n.children, NIL, 0, 256)
                IN  IF idx < 256 THEN minimum(n.children[idx]) ELSE NIL
           [] OTHER -> PANIC

RECURSIVE maximum(_)
maximum(n) ==
    IF n.kind = "nil" THEN NIL
    ELSE IF n.kind = "panic" THEN PANIC
    ELSE IF isLeaf(n) THEN n
    ELSE CASE n.kind = "node4" ->
                IF (n.numChildren - 1) \in DOMAIN n.children
                THEN maximum(n.children[n.numChildren - 1]) ELSE PANIC
           [] n.kind = "node16" ->
                IF (n.numChildren - 1) \in DOMAIN n.children
                THEN maximum(n.children[n.numChildren - 1]) ELSE PANIC
           [] n.kind = "node48" ->
                LET idx == ScanDown(n.children, 255)
                IN  IF idx = -2 THEN PANIC
                    ELSE IF idx >= 0 THEN maximum(n.children[idx]) ELSE NIL
           [] n.kind = "node256" ->
                LET idx == ScanDown(n.children, 255)
                IN  IF idx = -2 THEN PANIC
                    ELSE IF idx >= 0 THEN maximum(n.children[idx]) ELSE NIL
           [] OTHER -> PANIC

\* Faulty variant of prefixMismatch: compares the explicit prefix bytes only
\* and never reads a leaf. C22_PrefixMismatch fails with it.
prefixMismatchExplicit(n, key, keyLen, depth) ==
    LET maxCmp == min(min(maxPrefixLen, n.partialLen), keyLen - depth)
    IN  MismatchScan(n.partial, key, depth, 0, maxCmp)

\* prefixMismatch: the offset at which key leaves the node's prefix; the part
\* of a prefix longer than maxPrefixLen is read from the minimum leaf.
prefixMismatch(n, key, keyLen, depth) ==
    LET maxCmp == min(min(maxPrefixLen, n.partialLen), keyLen - depth)
        idx == MismatchScan(n.partial, key, depth, 0, maxCmp)
    IN  IF idx < maxCmp THEN idx
        ELSE IF n.partialLen > maxPrefixLen
        THEN LET l == minimum(n)
             IN  IF l.kind # "leaf" THEN idx
                 ELSE MismatchScan([i \in 0..(Len(l.key) - depth - 1) |->
                                      At(l.key, i + depth)],
                                   key, depth, idx, min(Len(l.key), keyLen) - depth)
        ELSE idx

\* ---------------------------------------------------------------- findChild
\* Faulty variant of findChild: the Node4 scan does not stop at numChildren
\* and so finds the stale slots. C8_AbsentNotFound fails with it.
findChildStale(n, c) ==
    CASE n.kind = "node4" ->
           LET hit == {i \in 0..3 : n.keys[i] = c}
           IN  IF hit = {} THEN -1 ELSE CHOOSE i \in hit : \A j \in hit : i <= j
      [] n.kind = "node16" ->
           LET hit == {i \in 0..15 : n.keys[i] = c /\ i < n.numChildren}
           IN  IF hit = {} THEN -1 ELSE CHOOSE i \in hit : \A j \in hit : i <= j
      [] n.kind = "node48" ->
           LET i == n.keys[c] IN IF i # 0 THEN i - 1 ELSE -1
      [] n.kind = "node256" ->
           IF n.children[c].kind # "nil" THEN c ELSE -1
      [] OTHER -> -1

\* The slot of n that holds the child for byte c, as its index in
\* n.children; -1 where the Go code returns nil.
findChild(n, c) ==
    CASE n.kind = "node4" ->
           LET hit == {i \in 0..3 : i < n.numChildren /\ n.keys[i] = c}
           IN  IF hit = {} THEN -1 ELSE CHOOSE i \in hit : \A j \in hit : i <= j
      [] n.kind = "node16" ->
           \* bitfield of the equal keys, masked to the first numChildren bits;
           \* TrailingZeros16 picks the lowest one
           LET hit == {i \in 0..15 : n.keys[i] = c /\ i < n.numChildren}
           IN  IF hit = {} THEN -1 ELSE CHOOSE i \in hit : \A j \in hit : i <= j
      [] n.kind = "node48" ->
           LET i == n.keys[c] IN IF i # 0 THEN i - 1 ELSE -1
      [] n.kind = "node256" ->
           IF n.children[c].kind # "nil" THEN c ELSE -1
      [] n.kind = "leaf" -> -1
      [] OTHER -> -1

\* ----------------------------------------------------------------- addChild
\* Every addChildN(n, c, child) returns the node that stands at n's position
\* afterwards: n itself, changed in place, or the node assigned to *ref.

addChild256(n, c, child) ==
    [n EXCEPT !.numChildren = n.numChildren + 1, !.children[c] = child]

\* Faulty variant of addChild48: the child goes into slot numChildren instead
\* of the first empty slot. C24_Node48Index fails with it.
addChild48AtCount(n, c, child) ==
    IF n.numChildren < 48
    THEN [n EXCEPT !.children[n.numChildren] = child, !.keys[c] = n.numChildren + 1,
                   !.numChildren = n.numChildren + 1]
    ELSE LET newNode == allocNode("node256")
             node256 == [newNode EXCEPT !.children =
                            [i \in 0..255 |->
                               IF n.keys[i] # 0 THEN n.children[n.keys[i] - 1]
                               ELSE NIL]]
         IN  addChild256(copyHeader(node256, n), c, child)

addChild48(n, c, child) ==
    IF n.numChildren < 48
    THEN \* "pos := 0; for n.children[pos] != nil { pos++ }": the first empty
         \* slot; running off the array is an index panic
         LET free == {i \in 0..47 : n.children[i].kind = "nil"}
             pos == IF free = {} THEN 48 ELSE CHOOSE i \in free : \A j \in free : i <= j
         IN  IF pos >= 48 THEN PANIC
             ELSE [n EXCEPT !.children[pos] = child, !.keys[c] = pos + 1,
                            !.numChildren = n.numChildren + 1]
    ELSE LET newNode == allocNode("node256")
             node256 == [newNode EXCEPT !.children =
                            [i \in 0..255 |->
                               IF n.keys[i] # 0 THEN n.children[n.keys[i] - 1]
                               ELSE NIL]]
         IN  addChild256(copyHeader(node256, n), c, child)

\* Faulty variant of addChild16: the keys from idx on are shifted up and the
\* children are not. C26_InsertFrame fails with it.
addChild16KeysOnly(n, c, child) ==
    LET less == {i \in 0..15 : c < n.keys[i] /\ i < n.numChildren}
        idx == IF less # {} THEN CHOOSE i \in less : \A j \in less : i <= j
               ELSE min(n.numChildren, 15)
        shifted(a) == [i \in 0..15 |->
                         IF less # {} /\ i > idx /\ i <= n.numChildren /\ i <= 15
                         THEN a[i - 1] ELSE a[i]]
    IN  [n EXCEPT !.keys = [shifted(n.keys) EXCEPT ![idx] = c],
                  !.children[idx] = child,
                  !.numChildren = min(n.numChildren + 1, 16)]

addChild16(n, c, child) ==
    IF n.numChildren < 16
    THEN LET less == {i \in 0..15 : c < n.keys[i] /\ i < n.numChildren}
             idx == IF less # {} THEN CHOOSE i \in less : \A j \in less : i <= j
                    ELSE n.numChildren
             \* the shift is only made when some key is greater than c
             shifted(a) == [i \in 0..15 |->
                              IF less # {} /\ i > idx /\ i <= n.numChildren
                              THEN a[i - 1] ELSE a[i]]
         IN  [n EXCEPT !.keys = [shifted(n.keys) EXCEPT ![idx] = c],
                       !.children = [shifted(n.children) EXCEPT ![idx] = child],
                       !.numChildren = n.numChildren + 1]
    ELSE LET newNode == allocNode("node48")
             node48 == [newNode EXCEPT
                          !.children = [i \in 0..47 |->
                                          IF i < n.numChildren THEN n.children[i]
                                          ELSE NIL],
                          !.keys = [b \in 0..255 |->
                                      LET at == {i \in 0..15 : i < n.numChildren
                                                               /\ n.keys[i] = b}
                                      IN  IF at = {} THEN 0
                                          \* a later i overwrites an earlier one
                                          ELSE (CHOOSE i \in at : \A j \in at : j <= i) + 1]]
         IN  addChild48(copyHeader(node48, n), c, child)

\* Faulty variant of addChild4: the entries from idx on are not shifted up
\* before the new one is stored, and the node is never replaced.
\* C23_SplitShape fails with it.
addChild4NoShift(n, c, child) ==
    LET less == {i \in 0..3 : i < n.numChildren /\ c < n.keys[i]}
        idx == IF less # {} THEN CHOOSE i \in less : \A j \in less : i <= j
               ELSE min(n.numChildren, 3)
    IN  [n EXCEPT !.keys[idx] = c, !.children[idx] = child,
                  !.numChildren = min(n.numChildren + 1, 4)]

addChild4(n, c, child) ==
    IF n.numChildren < 4
    THEN LET less == {i \in 0..3 : i < n.numChildren /\ c < n.keys[i]}
             idx == IF less # {} THEN CHOOSE i \in less : \A j \in less : i <= j
                    ELSE n.numChildren
             shifted(a) == [i \in 0..3 |->
                              IF i > idx /\ i <= n.numChildren THEN a[i - 1] ELSE a[i]]
         IN  [n EXCEPT !.keys = [shifted(n.keys) EXCEPT ![idx] = c],
                       !.children = [shifted(n.children) EXCEPT ![idx] = child],
                       !.numChildren = n.numChildren + 1]
    ELSE LET newNode == allocNode("node16")
             node16 == [newNode EXCEPT
                          !.children = [i \in 0..15 |->
                                          IF i < n.numChildren THEN n.children[i]
                                          ELSE NIL],
                          !.keys = [i \in 0..15 |->
                                      IF i < n.numChildren THEN n.keys[i] ELSE 0]]
         IN  addChild16(copyHeader(node16, n), c, child)

addChild(n, c, child) ==
    CASE n.kind = "node4" -> addChild4(n, c, child)
      [] n.kind = "node16" -> addChild16(n, c, child)
      [] n.kind = "node48" -> addChild48(n, c, child)
      [] n.kind = "node256" -> addChild256(n, c, child)
      [] OTHER -> PANIC

\* -------------------------------------------------------------- removeChild
\* removeChildN returns the node that stands at n's position afterwards.  l is
\* the slot findChild returned (an index into n.children), c the key byte.

\* Faulty variant of SlotOf: the scan stops at the first slot without
\* comparing it. C18_RemoveChild fails with it.
SlotOfFirst(children, l) == 0

\* "for i, node := range n.children { if node == *l { pos = i; break } }"
SlotOf(children, l) ==
    LET hit == {i \in DOMAIN children : children[i] = children[l]}
    IN  IF hit = {} THEN -1 ELSE CHOOSE i \in hit : \A j \in hit : i <= j

\* Faulty variant of ShiftDown: copy(a[pos+1:], a[pos+2:]), which keeps the
\* entry at pos. C2_DeleteThenAbsent fails with it.
ShiftDownLate(a, pos, n) ==
    [i \in 0..(n - 1) |-> IF i >= pos + 1 /\ i + 1 <= n - 1 THEN a[i + 1] ELSE a[i]]

\* copy(a[pos:], a[pos+1:]) on an array of n entries: the last entry stays.
ShiftDown(a, pos, n) ==
    [i \in 0..(n - 1) |-> IF i >= pos /\ i + 1 <= n - 1 THEN a[i + 1] ELSE a[i]]

\* Faulty variant of removeChild4: the merged prefix length leaves out the key
\* byte between the two prefixes. C19_Collapse fails with it.
removeChild4ShortLen(n, l) ==
    LET pos == SlotOf(n.children, l)
    IN  IF pos < 0 THEN PANIC
        ELSE
        LET n1 == [n EXCEPT !.keys = ShiftDown(n.keys, pos, 4),
                            !.children = ShiftDown(n.children, pos, 4),
                            !.numChildren = n.numChildren - 1]
        IN  IF n1.numChildren # 1 THEN n1
            ELSE IF n1.children[0].kind = "nil" THEN n1
            ELSE LET child == n1.children[0]
                 IN  IF isLeaf(child) THEN child
                     ELSE
                     LET prefix0 == n1.partialLen
                         \* n.partial[prefix] = n.keys[0]; prefix++
                         part1 == IF prefix0 < maxPrefixLen
                                  THEN [n1.partial EXCEPT ![prefix0] = n1.keys[0]]
                                  ELSE n1.partial
                         prefix1 == IF prefix0 < maxPrefixLen THEN prefix0 + 1
                                    ELSE prefix0
                         subPrefix == min(child.partialLen, maxPrefixLen - prefix1)
                         part2 == IF prefix1 < maxPrefixLen
                                  THEN [i \in 0..(maxPrefixLen - 1) |->
                                          IF i >= prefix1 /\ i < prefix1 + subPrefix
                                          THEN child.partial[i - prefix1]
                                          ELSE part1[i]]
                                  ELSE part1
                         prefix2 == IF prefix1 < maxPrefixLen THEN prefix1 + subPrefix
                                    ELSE prefix1
                         cnt == min(prefix2, maxPrefixLen)
                     IN  [child EXCEPT
                            !.partial = [i \in 0..(maxPrefixLen - 1) |->
                                           IF i < cnt THEN part2[i]
                                           ELSE child.partial[i]],
                            !.partialLen = child.partialLen + n1.partialLen]

\* Faulty variant of removeChild4: the node left with a single child is kept.
\* C12_Fill fails with it.
removeChild4NoCollapse(n, l) ==
    LET pos == SlotOf(n.children, l)
    IN  IF pos < 0 THEN PANIC
        ELSE [n EXCEPT !.keys = ShiftDown(n.keys, pos, 4),
                       !.children = ShiftDown(n.children, pos, 4),
                       !.numChildren = n.numChildren - 1]

\* Faulty variant of removeChild4: the merged prefix leaves out the key byte
\* that led from the Node4 to its remaining child. C21_PrefixInvariant fails
\* with it.
removeChild4NoByte(n, l) ==
    LET pos == SlotOf(n.children, l)
    IN  IF pos < 0 THEN PANIC
        ELSE
        LET n1 == [n EXCEPT !.keys = ShiftDown(n.keys, pos, 4),
                            !.children = ShiftDown(n.children, pos, 4),
                            !.numChildren = n.numChildren - 1]
        IN  IF n1.numChildren # 1 THEN n1
            ELSE IF n1.children[0].kind = "nil" THEN n1
            ELSE LET child == n1.children[0]
                 IN  IF isLeaf(child) THEN child
                     ELSE
                     LET prefix0 == n1.partialLen
                         subPrefix == min(child.partialLen, maxPrefixLen - prefix0)
                         part2 == IF prefix0 < maxPrefixLen
                                  THEN [i \in 0..(maxPrefixLen - 1) |->
                                          IF i >= prefix0 /\ i < prefix0 + subPrefix
                                          THEN child.partial[i - prefix0]
                                          ELSE n1.partial[i]]
                                  ELSE n1.partial
                         prefix2 == IF prefix0 < maxPrefixLen THEN prefix0 + subPrefix
                                    ELSE prefix0
                         cnt == min(prefix2, maxPrefixLen)
                     IN  [child EXCEPT
                            !.partial = [i \in 0..(maxPrefixLen - 1) |->
                                           IF i < cnt THEN part2[i]
                                           ELSE child.partial[i]],
                            !.partialLen = child.partialLen + n1.partialLen + 1]

\* Faulty variant of removeChild4: the prefixes are concatenated into the
\* remaining child also when it is a leaf. C25_LeafCollapse fails with it.
removeChild4MergeLeaf(n, l) ==
    LET pos == SlotOf(n.children, l)
    IN  IF pos < 0 THEN PANIC
        ELSE
        LET n1 == [n EXCEPT !.keys = ShiftDown(n.keys, pos, 4),
                            !.children = ShiftDown(n.children, pos, 4),
                            !.numChildren = n.numChildren - 1]
        IN  IF n1.numChildren # 1 THEN n1
            ELSE IF n1.children[0].kind = "nil" THEN n1
            ELSE LET child == n1.children[0]
                 IN
                     LET prefix0 == n1.partialLen
                         \* n.partial[prefix] = n.keys[0]; prefix++
                         part1 == IF prefix0 < maxPrefixLen
                                  THEN [n1.partial EXCEPT ![prefix0] = n1.keys[0]]
                                  ELSE n1.partial
                         prefix1 == IF prefix0 < maxPrefixLen THEN prefix0 + 1
                                    ELSE prefix0
                         subPrefix == min(child.partialLen, maxPrefixLen - prefix1)
                         part2 == IF prefix1 < maxPrefixLen
                                  THEN [i \in 0..(maxPrefixLen - 1) |->
                                          IF i >= prefix1 /\ i < prefix1 + subPrefix
                                          THEN child.partial[i - prefix1]
                                          ELSE part1[i]]
                                  ELSE part1
                         prefix2 == IF prefix1 < maxPrefixLen THEN prefix1 + subPrefix
                                    ELSE prefix1
                         cnt == min(prefix2, maxPrefixLen)
                     IN  [child EXCEPT
                            !.partial = [i \in 0..(maxPrefixLen - 1) |->
                                           IF i < cnt THEN part2[i]
                                           ELSE child.partial[i]],
                            !.partialLen = child.partialLen + n1.partialLen + 1]

removeChild4(n, l) ==
    LET pos == SlotOf(n.children, l)
    IN  IF pos < 0 THEN PANIC
        ELSE
        LET n1 == [n EXCEPT !.keys = ShiftDown(n.keys, pos, 4),
                            !.children = ShiftDown(n.children, pos, 4),
                            !.numChildren = n.numChildren - 1]
        IN  IF n1.numChildren # 1 THEN n1
            ELSE IF n1.children[0].kind = "nil" THEN n1
            ELSE LET child == n1.children[0]
                 IN  IF isLeaf(child) THEN child
                     ELSE
                     LET prefix0 == n1.partialLen
                         \* n.partial[prefix] = n.keys[0]; prefix++
                         part1 == IF prefix0 < maxPrefixLen
                                  THEN [n1.partial EXCEPT ![prefix0] = n1.keys[0]]
                                  ELSE n1.partial
                         prefix1 == IF prefix0 < maxPrefixLen THEN prefix0 + 1
                                    ELSE prefix0
                         subPrefix == min(child.partialLen, maxPrefixLen - prefix1)
                         part2 == IF prefix1 < maxPrefixLen
                                  THEN [i \in 0..(maxPrefixLen - 1) |->
                                          IF i >= prefix1 /\ i < prefix1 + subPrefix
                                          THEN child.partial[i - prefix1]
                                          ELSE part1[i]]
                                  ELSE part1
                         prefix2 == IF prefix1 < maxPrefixLen THEN prefix1 + subPrefix
                                    ELSE prefix1
                         cnt == min(prefix2, maxPrefixLen)
                     IN  [child EXCEPT
                            !.partial = [i \in 0..(maxPrefixLen - 1) |->
                                           IF i < cnt THEN part2[i]
                                           ELSE child.partial[i]],
                            !.partialLen = child.partialLen + n1.partialLen + 1]

\* Faulty variant of removeChild16: shrinks to a Node4 as soon as 4 children
\* remain. C20_Hysteresis fails with it.
removeChild16Early(n, l) ==
    LET pos == SlotOf(n.children, l)
    IN  IF pos < 0 THEN PANIC
        ELSE
        LET n1 == [n EXCEPT !.keys = ShiftDown(n.keys, pos, 16),
                            !.children = ShiftDown(n.children, pos, 16),
                            !.numChildren = n.numChildren - 1]
        IN  IF n1.numChildren # 4 THEN n1
            ELSE LET newNode == copyHeader(allocNode("node4"), n1)
                 IN  [newNode EXCEPT !.keys = [i \in 0..3 |-> n1.keys[i]],
                                     !.children = [i \in 0..3 |-> n1.children[i]]]

\* Faulty variant of removeChild16: the Node4 it shrinks to gets the children
\* and not the keys. C3_DeleteFrame fails with it.
removeChild16NoKeys(n, l) ==
    LET pos == SlotOf(n.children, l)
    IN  IF pos < 0 THEN PANIC
        ELSE
        LET n1 == [n EXCEPT !.keys = ShiftDown(n.keys, pos, 16),
                            !.children = ShiftDown(n.children, pos, 16),
                            !.numChildren = n.numChildren - 1]
        IN  IF n1.numChildren # 3 THEN n1
            ELSE LET newNode == copyHeader(allocNode("node4"), n1)
                 IN  [newNode EXCEPT !.children = [i \in 0..3 |-> n1.children[i]]]

removeChild16(n, l) ==
    LET pos == SlotOf(n.children, l)
    IN  IF pos < 0 THEN PANIC
        ELSE
        LET n1 == [n EXCEPT !.keys = ShiftDown(n.keys, pos, 16),
                            !.children = ShiftDown(n.children, pos, 16),
                            !.numChildren = n.numChildren - 1]
        IN  IF n1.numChildren # 3 THEN n1
            ELSE LET newNode == copyHeader(allocNode("node4"), n1)
                 IN  [newNode EXCEPT !.keys = [i \in 0..3 |-> n1.keys[i]],
                                     !.children = [i \in 0..3 |-> n1.children[i]]]

\* Faulty variant of NthOf: counts from the largest element down, which fills
\* the smaller node in descending byte order. C13_SortedKeys fails with it.
NthOfDescending(S, j) == CHOOSE e \in S : Cardinality({x \in S : x > e}) = j

\* The j-th (from 0) element of the set S of integers in ascending order.
NthOf(S, j) == CHOOSE e \in S : Cardinality({x \in S : x < e}) = j

removeChild48(n, c) ==
    LET pos == n.keys[c]
    IN  IF pos = 0 THEN PANIC
        ELSE
        LET n1 == [n EXCEPT !.keys[c] = 0, !.children[pos - 1] = NIL,
                            !.numChildren = n.numChildren - 1]
        IN  IF n1.numChildren # 12 THEN n1
            ELSE LET newNode == copyHeader(allocNode("node16"), n1)
                     used == {i \in 0..255 : n1.keys[i] # 0}
                 IN  IF Cardinality(used) > 16 THEN PANIC
                     ELSE [newNode EXCEPT
                             !.keys = [j \in 0..15 |->
                                         IF j < Cardinality(used) THEN NthOf(used, j)
                                         ELSE 0],
                             !.children = [j \in 0..15 |->
                                             IF j < Cardinality(used)
                                             THEN n1.children[n1.keys[NthOf(used, j)] - 1]
                                             ELSE NIL]]

removeChild256(n, c) ==
    LET n1 == [n EXCEPT !.children[c] = NIL, !.numChildren = n.numChildren - 1]
    IN  IF n1.numChildren # 37 THEN n1
        ELSE LET newNode == copyHeader(allocNode("node48"), n1)
                 used == {i \in 0..255 : n1.children[i].kind # "nil"}
             IN  IF Cardinality(used) > 48 THEN PANIC
                 ELSE [newNode EXCEPT
                         !.children = [j \in 0..47 |->
                                         IF j < Cardinality(used)
                                         THEN n1.children[NthOf(used, j)] ELSE NIL],
                         !.keys = [i \in 0..255 |->
                                     IF i \in used
                                     THEN Cardinality({x \in used : x < i}) + 1
                                     ELSE 0]]

removeChild(n, c, l) ==
    CASE n.kind = "node4" -> removeChild4(n, l)
      [] n.kind = "node16" -> removeChild16(n, l)
      [] n.kind = "node48" -> removeChild48(n, c)
      [] n.kind = "node256" -> removeChild256(n, c)
      [] OTHER -> PANIC

\* The key bytes under which the internal node n has a child, and that child.
ChildBytes(n) ==
    CASE n.kind \in {"node4", "node16"} ->
           {n.keys[i] : i \in {j \in DOMAIN n.keys : j < n.numChildren}}
      [] n.kind = "node48" -> {b \in 0..255 : n.keys[b] # 0}
      [] n.kind = "node256" -> {b \in 0..255 : n.children[b].kind # "nil"}
ChildAt(n, b) == n.children[findChild(n, b)]

\* ------------------------------------------------- what the parent slot shows
\* A promotion or demotion assigns the new node to *ref and then fills it.  The
\* sequences below list the node that *ref refers to after each statement from
\* "*ref = &newNode" on; the last entry is the node the call leaves there.

\* addChild4 on a full Node4.
addChild4Steps(n, c, child) ==
    LET s1 == allocNode("node16")
        s2 == [s1 EXCEPT !.children = [i \in 0..15 |->
                                         IF i < n.numChildren THEN n.children[i]
                                         ELSE s1.children[i]]]
        s3 == [s2 EXCEPT !.keys = [i \in 0..15 |->
                                     IF i < n.numChildren THEN n.keys[i]
                                     ELSE s2.keys[i]]]
        s4 == copyHeader(s3, n)
    IN  <<s1, s2, s3, s4, addChild16(s4, c, child)>>

\* addChild16 on a full Node16.
addChild16Steps(n, c, child) ==
    LET s1 == allocNode("node48")
        s2 == [s1 EXCEPT !.children = [i \in 0..47 |->
                                         IF i < n.numChildren THEN n.children[i]
                                         ELSE s1.children[i]]]
        s3 == [s2 EXCEPT !.keys =
                 [b \in 0..255 |->
                    LET at == {i \in 0..15 : i < n.numChildren /\ n.keys[i] = b}
                    IN  IF at = {} THEN 0
                        ELSE (CHOOSE i \in at : \A j \in at : j <= i) + 1]]
        s4 == copyHeader(s3, n)
    IN  <<s1, s2, s3, s4, addChild48(s4, c, child)>>

\* addChild48 on a full Node48.
addChild48Steps(n, c, child) ==
    LET s1 == allocNode("node256")
        s2 == [s1 EXCEPT !.children =
                 [i \in 0..255 |->
                    IF n.keys[i] # 0 THEN n.children[n.keys[i] - 1] ELSE NIL]]
        s3 == copyHeader(s2, n)
    IN  <<s1, s2, s3, addChild256(s3, c, child)>>

\* removeChild16 that leaves 3 children; n1 is n after the shift and the
\* decrement.
removeChild16Steps(n1) ==
    LET s1 == allocNode("node4")
        s2 == copyHeader(s1, n1)
        s3 == [s2 EXCEPT !.keys = [i \in 0..3 |-> n1.keys[i]]]
        s4 == [s3 EXCEPT !.children = [i \in 0..3 |-> n1.children[i]]]
    IN  <<s1, s2, s3, s4>>

\* removeChild48 that leaves 12 children; n1 is n with the child cleared.
removeChild48Steps(n1) ==
    LET s1 == allocNode("node16")
        s2 == copyHeader(s1, n1)
        used == {i \in 0..255 : n1.keys[i] # 0}
        s3 == [s2 EXCEPT
                 !.keys = [j \in 0..15 |->
                             IF j < Cardinality(used) THEN NthOf(used, j) ELSE 0],
                 !.children = [j \in 0..15 |->
                                 IF j < Cardinality(used)
                                 THEN n1.children[n1.keys[NthOf(used, j)] - 1]
                                 ELSE NIL]]
    IN  <<s1, s2, s3>>

\* removeChild256 that leaves 37 children; n1 is n with the child cleared.
removeChild256Steps(n1) ==
    LET s1 == allocNode("node48")
        s2 == copyHeader(s1, n1)
        used == {i \in 0..255 : n1.children[i].kind # "nil"}
        s3 == [s2 EXCEPT
                 !.children = [j \in 0..47 |->
                                 IF j < Cardinality(used)
                                 THEN n1.children[NthOf(used, j)] ELSE NIL],
                 !.keys = [i \in 0..255 |->
                             IF i \in used
                             THEN Cardinality({x \in used : x < i}) + 1 ELSE 0]]
    IN  <<s1, s2, s3>>

\* The node a promotion of n replaces, and what *ref shows while addChild
\* (n, c, child) runs; <<>> when the add is made in place.
addChildSteps(n, c, child) ==
    CASE n.kind = "node4" /\ n.numChildren >= 4 -> addChild4Steps(n, c, child)
      [] n.kind = "node16" /\ n.numChildren >= 16 -> addChild16Steps(n, c, child)
      [] n.kind = "node48" /\ n.numChildren >= 48 -> addChild48Steps(n, c, child)
      [] OTHER -> <<>>

\* The node a demotion replaces (n after the removal of the child for byte c
\* in slot l), NIL when removeChild(n, c, l) does not demote.
removeChildLeft(n, c, l) ==
    CASE n.kind = "node16" /\ n.numChildren = 4 ->
           [n EXCEPT !.keys = ShiftDown(n.keys, SlotOf(n.children, l), 16),
                     !.children = ShiftDown(n.children, SlotOf(n.children, l), 16),
                     !.numChildren = n.numChildren - 1]
      [] n.kind = "node48" /\ n.numChildren = 13 ->
           [n EXCEPT !.keys[c] = 0, !.children[n.keys[c] - 1] = NIL,
                     !.numChildren = n.numChildren - 1]
      [] n.kind = "node256" /\ n.numChildren = 38 ->
           [n EXCEPT !.children[c] = NIL, !.numChildren = n.numChildren - 1]
      [] OTHER -> NIL

\* What *ref shows while removeChild(n, c, l) runs; <<>> when it does not
\* demote.
removeChildSteps(n, c, l) ==
    LET n1 == removeChildLeft(n, c, l)
    IN  CASE n1.kind = "node16" -> removeChild16Steps(n1)
          [] n1.kind = "node48" -> removeChild48Steps(n1)
          [] n1.kind = "node256" -> removeChild256Steps(n1)
          [] OTHER -> <<>>

\* ------------------------------------------------------------- tree engine
\* The value "no value" of the (previous, replaced) / (value, found) results.
None == 0

SetSlot(n, slot, child) == [n EXCEPT !.children[slot] = child]

InsertResult(node, old, replaced) ==
    [node |-> node, old |-> old, replaced |-> replaced, panic |-> node.kind = "panic"]

\* A new Node4 replacing a leaf l that differs from the inserted key: its
\* prefix is the common prefix from depth on, its children l and the new leaf
\* under their next bytes.
SplitLeaf(l, key, value, depth) ==
    LET l2 == makeLeaf(key, value)
        longestPrefix == longestCommonPrefix(l, l2, depth)
        newNode == [allocNode("node4") EXCEPT
                      !.partialLen = longestPrefix,
                      !.partial = [i \in 0..(maxPrefixLen - 1) |->
                                     IF i < min(maxPrefixLen, longestPrefix)
                                     THEN At(key, depth + i) ELSE 0]]
    IN  IF ~InRange(l.key, depth + longestPrefix)
           \/ ~InRange(l2.key, depth + longestPrefix)
        THEN PANIC
        ELSE addChild4(addChild4(newNode, At(l.key, depth + longestPrefix), l),
                       At(l2.key, depth + longestPrefix), l2)

\* A new Node4 replacing an internal node n whose prefix the key leaves at
\* offset prefixDiff: its children are n, with the consumed bytes trimmed from
\* its prefix, and the new leaf.
SplitPrefix(n, key, value, depth, prefixDiff) ==
    LET newNode == [allocNode("node4") EXCEPT
                      !.partialLen = prefixDiff,
                      !.partial = [i \in 0..(maxPrefixLen - 1) |->
                                     IF i < min(maxPrefixLen, prefixDiff)
                                     THEN n.partial[i] ELSE 0]]
        newLen == n.partialLen - (prefixDiff + 1)
        l == minimum(n)
        short == n.partialLen <= maxPrefixLen
        c1 == IF short THEN n.partial[prefixDiff] ELSE At(l.key, depth + prefixDiff)
        trimmed == [n EXCEPT
                      !.partialLen = newLen,
                      !.partial = [i \in 0..(maxPrefixLen - 1) |->
                                     IF i < min(maxPrefixLen, newLen)
                                     THEN IF short THEN n.partial[i + prefixDiff + 1]
                                          ELSE At(l.key, depth + prefixDiff + 1 + i)
                                     ELSE n.partial[i]]]
    IN  IF ~short /\ l.kind # "leaf" THEN PANIC
        ELSE IF ~InRange(key, depth + prefixDiff) THEN PANIC
        ELSE addChild4(addChild4(newNode, c1, trimmed),
                       At(key, depth + prefixDiff), makeLeaf(key, value))

RECURSIVE recursiveInsert(_, _, _, _)
recursiveInsert(n, key, value, depth) ==
    IF n.kind = "nil" THEN InsertResult(makeLeaf(key, value), None, FALSE)
    ELSE IF isLeaf(n)
    THEN IF leafMatches(n, key, Len(key)) = 0
         THEN InsertResult([n EXCEPT !.value = value], n.value, TRUE)
         ELSE InsertResult(SplitLeaf(n, key, value, depth), None, FALSE)
    ELSE
    LET prefixDiff == IF n.partialLen > 0
                      THEN prefixMismatch(n, key, Len(key), depth) ELSE 0
    IN  IF n.partialLen > 0 /\ prefixDiff < n.partialLen
        THEN InsertResult(SplitPrefix(n, key, value, depth, prefixDiff), None, FALSE)
        ELSE
        LET d == depth + n.partialLen
        IN  IF ~InRange(key, d) THEN InsertResult(PANIC, None, FALSE)
            ELSE
            LET slot == findChild(n, At(key, d))
            IN  IF slot >= 0
                THEN LET r == recursiveInsert(n.children[slot], key, value, d + 1)
                     IN  IF r.panic THEN r
                         ELSE InsertResult(SetSlot(n, slot, r.node), r.old, r.replaced)
                ELSE InsertResult(addChild(n, At(key, d), makeLeaf(key, value)),
                                  None, FALSE)

SearchResult(found, value) == [found |-> found, value |-> value]

RECURSIVE search(_, _, _)
search(n, key, depth) ==
    IF n.kind = "nil" THEN SearchResult(FALSE, None)
    ELSE IF isLeaf(n)
    THEN IF leafMatches(n, key, Len(key)) = 0 THEN SearchResult(TRUE, n.value)
         ELSE SearchResult(FALSE, None)
    ELSE IF n.partialLen > 0
            /\ checkPrefix(n, key, Len(key), depth) # min(maxPrefixLen, n.partialLen)
    THEN SearchResult(FALSE, None)
    ELSE
    LET d == depth + n.partialLen
    IN  IF d >= Len(key) THEN SearchResult(FALSE, None)
        ELSE LET slot == findChild(n, At(key, d))
             IN  IF slot < 0 THEN SearchResult(FALSE, None)
                 ELSE search(n.children[slot], key, d + 1)

DeleteResult(node, leaf) ==
    [node |-> node, leaf |-> leaf, panic |-> node.kind = "panic"]

RECURSIVE recursiveDelete(_, _, _)
recursiveDelete(n, key, depth) ==
    IF n.kind = "nil" THEN DeleteResult(n, NIL)
    ELSE IF isLeaf(n)
    THEN IF leafMatches(n, key, Len(key)) = 0 THEN DeleteResult(NIL, n)
         ELSE DeleteResult(n, NIL)
    ELSE IF n.partialLen > 0
            /\ checkPrefix(n, key, Len(key), depth) # min(maxPrefixLen, n.partialLen)
    THEN DeleteResult(n, NIL)
    ELSE
    LET d == depth + n.partialLen
    IN  IF d >= Len(key) THEN DeleteResult(n, NIL)
        ELSE
        LET slot == findChild(n, At(key, d))
        IN  IF slot < 0 THEN DeleteResult(n, NIL)
            ELSE
            LET child == n.children[slot]
            IN  IF isLeaf(child)
                THEN IF leafMatches(child, key, Len(key)) = 0
                     THEN DeleteResult(removeChild(n, At(key, d), slot), child)
                     ELSE DeleteResult(n, NIL)
                ELSE LET r == recursiveDelete(child, key, d + 1)
                     IN  IF r.panic THEN r
                         ELSE DeleteResult(SetSlot(n, slot, r.node), r.leaf)

\* ------------------------------------------------------------ restructuring
\* The node on which an Insert of key calls addChild, or a Delete of key calls
\* removeChild: the node, the key byte, the child slot (removeChild) and the
\* key bytes above the node, which name its position in the tree.
NoSite == [act |-> "none"]

RECURSIVE InsertSite(_, _, _)
InsertSite(n, key, depth) ==
    IF n.kind = "nil" \/ isLeaf(n) THEN NoSite
    ELSE IF n.partialLen > 0 /\ prefixMismatch(n, key, Len(key), depth) < n.partialLen
    THEN NoSite
    ELSE LET d == depth + n.partialLen
         IN  IF ~InRange(key, d) THEN NoSite
             ELSE IF findChild(n, At(key, d)) >= 0
             THEN InsertSite(n.children[findChild(n, At(key, d))], key, d + 1)
             ELSE [act |-> "add", node |-> n, c |-> At(key, d), slot |-> -1,
                   pos |-> SubSeq(key, 1, depth)]

RECURSIVE DeleteSite(_, _, _)
DeleteSite(n, key, depth) ==
    IF n.kind = "nil" \/ isLeaf(n) THEN NoSite
    ELSE IF n.partialLen > 0
            /\ checkPrefix(n, key, Len(key), depth) # min(maxPrefixLen, n.partialLen)
    THEN NoSite
    ELSE LET d == depth + n.partialLen
         IN  IF d >= Len(key) \/ findChild(n, At(key, d)) < 0 THEN NoSite
             ELSE LET slot == findChild(n, At(key, d))
                  IN  IF ~isLeaf(n.children[slot])
                      THEN DeleteSite(n.children[slot], key, d + 1)
                      ELSE IF leafMatches(n.children[slot], key, Len(key)) # 0
                      THEN NoSite
                      ELSE [act |-> "remove", node |-> n, c |-> At(key, d),
                            slot |-> slot, pos |-> SubSeq(key, 1, depth)]

\* What a node v shows of the node old: how many of old's children a lookup
\* finds in v under their bytes, and v's prefix length and explicit prefix
\* bytes.
Summary(v, old) ==
    [kind |-> v.kind,
     kids |-> Cardinality({b \in ChildBytes(old) :
                             /\ findChild(v, b) >= 0
                             /\ v.children[findChild(v, b)] = ChildAt(old, b)}),
     partialLen |-> v.partialLen,
     partial |-> [i \in 1..min(maxPrefixLen, old.partialLen) |-> v.partial[i - 1]]]

\* The record of the addChild or removeChild call of an operation: where it
\* was made, the kind and number of children of the node before, the kind and
\* prefix length of the node at the position after, the node a promotion or demotion
\* replaced and what the parent slot showed while it ran.
NoSplice ==
    [act |-> "none", pos |-> <<>>, from |-> "nil", to |-> "nil", count |-> 0,
     toLen |-> 0, replaced |-> [kind |-> "nil"], exposed |-> <<>>]

SpliceOf(st, key, value) ==
    IF st.act = "none" THEN NoSplice
    ELSE LET leaf == makeLeaf(key, value)
             after == IF st.act = "add" THEN addChild(st.node, st.c, leaf)
                      ELSE removeChild(st.node, st.c, st.slot)
             steps == IF st.act = "add" THEN addChildSteps(st.node, st.c, leaf)
                      ELSE removeChildSteps(st.node, st.c, st.slot)
             old == IF st.act = "add" \/ steps = <<>> THEN st.node
                    ELSE removeChildLeft(st.node, st.c, st.slot)
         IN  [act |-> st.act, pos |-> st.pos, from |-> st.node.kind,
              to |-> after.kind, count |-> st.node.numChildren,
              toLen |-> IF after.kind \in {"nil", "panic"} THEN 0 ELSE after.partialLen,
              replaced |-> IF steps = <<>> THEN [kind |-> "nil"] ELSE Summary(old, old),
              exposed |-> [i \in 1..Len(steps) |-> Summary(steps[i], old)]]

\* Whether the call recorded in sp replaced the node by a larger kind ("grow")
\* or by a smaller kind ("shrink").
Resize(sp) ==
    IF sp.act = "add" /\ sp.to # sp.from THEN "grow"
    ELSE IF sp.act = "remove" /\ sp.from # "node4" /\ sp.to # sp.from THEN "shrink"
    ELSE "none"

\* The removals (after a promotion) or adds (after a demotion) that are counted
\* at a position: up to 12 around Node48 <-> Node256, up to 2 elsewhere.
CountedUpTo(h) ==
    IF (h.dir = "grow" /\ h.kind = "node256") \/ (h.dir = "shrink" /\ h.kind = "node48")
    THEN 12 ELSE 2

\* The record of the last promotion or demotion: its position, direction and
\* resulting kind, and the number n of removals (after a promotion) or adds
\* (after a demotion) made at that position since.  The record is dropped once
\* n reaches CountedUpTo, or when the positions change.
NoSince == [pos |-> <<>>, dir |-> "none", kind |-> "nil", n |-> 0]

\* The record after an operation with splice sp; moved says that the operation
\* put a node in front of others or took one away (leaf or prefix split,
\* single-child collapse), which changes the positions below it.
SinceAfter(h, sp, moved) ==
    IF Resize(sp) # "none"
    THEN [pos |-> sp.pos, dir |-> Resize(sp), kind |-> sp.to, n |-> 0]
    ELSE IF moved THEN NoSince
    ELSE IF \/ h.dir = "grow" /\ sp.act = "remove" /\ sp.pos = h.pos
            \/ h.dir = "shrink" /\ sp.act = "add" /\ sp.pos = h.pos
    THEN IF h.n + 1 >= CountedUpTo(h) THEN NoSince ELSE [h EXCEPT !.n = h.n + 1]
    ELSE h

\* ---------------------------------------------------------------- public API
\* Get(key) on the tree rooted at r.
GetIn(r, key) == search(r, getTreeKey(key), 0)

\* Minimum()/Maximum() on the tree rooted at r: the application key and the
\* value of the extreme leaf; found is FALSE on the empty tree.
Extreme(l) ==
    [found |-> l.kind = "leaf", panic |-> l.kind = "panic",
     key |-> IF l.kind = "leaf" THEN getKey(l.key) ELSE <<>>,
     value |-> IF l.kind = "leaf" THEN l.value ELSE None]

MinimumIn(r) == Extreme(minimum(r))

MaximumIn(r) == Extreme(maximum(r))

\* ------------------------------------------------------------- key universes
\* The application keys the operations are called with.  A universe has free
\* keys, which may be inserted, deleted and looked up at any time, and a
\* script: a fixed sequence of inserts and deletes of further keys that the
\* caller goes through in order (which keeps the wide nodes, up to Node256,
\* within reach of exhaustive exploration).

\* Length of the long common prefix of the "long" universe (> maxPrefixLen).
LongLen == 12
\* Number of keys under the wide node of the "fan" universe (> 48).
FanDepth == 49

LongPrefix == [i \in 1..LongLen |-> i]

\* The key byte of the i-th fan key: not ascending in i, byte 0 included.
FanByte(i) == ((i - 1) * 37) % 256

\* The i-th key of the fan: one child of the wide node each, except that the
\* second key extends the first (an internal child under the wide node).
FanKey(i) == IF i = 2 THEN <<9, 9, FanByte(1), 1>> ELSE <<9, 9, FanByte(i)>>
\* A further child of the wide node, and a key that splits the prefix (9, 9).
FanExtra == <<9, 9, 250>>
FanSplit == <<9, 7>>

Ins(k) == <<[op |-> "Insert", key |-> k]>>
Del(k) == <<[op |-> "Delete", key |-> k]>>
\* Inserts of the fan keys a..b in ascending order of index.
InsRun(a, b) == [i \in 1..(b - a + 1) |-> [op |-> "Insert", key |-> FanKey(a + i - 1)]]
\* Deletes of the fan keys a..b in ascending / descending order of index.
DelRun(a, b) == [i \in 1..(b - a + 1) |-> [op |-> "Delete", key |-> FanKey(a + i - 1)]]
DelRunDown(b, a) == [i \in 1..(b - a + 1) |-> [op |-> "Delete", key |-> FanKey(b - i + 1)]]

\* Last in, first out: grows the node under (9, 9) to Node48, refills a freed
\* slot, shrinks it to Node16, grows it to Node256, shrinks it to Node48,
\* splits and restores its prefix, and empties the tree.
LifoScript ==
    InsRun(1, 18) \o Del(FanKey(3)) \o Ins(FanExtra) \o Ins(FanKey(3))
      \o DelRunDown(18, 10) \o InsRun(10, FanDepth)
      \o Del(FanExtra) \o DelRunDown(FanDepth, 37)
      \o Ins(FanSplit) \o InsRun(37, 40) \o Del(FanSplit) \o Ins(FanSplit)
      \o DelRunDown(40, 1) \o Del(FanSplit)

\* First in, first out: the oldest child is removed first.
FifoScript ==
    InsRun(1, 20) \o DelRun(1, 17) \o InsRun(1, 6) \o DelRun(18, 20) \o DelRun(1, 6)

\* Back and forth: grows the node under (9, 9) to Node256, removes the 12
\* newest children, which shrinks it to Node48, and adds them again, which
\* grows it to Node256 with the last of them.
SwayScript ==
    InsRun(1, FanDepth) \o Ins(FanExtra)
      \o DelRunDown(FanDepth, FanDepth - 11) \o InsRun(FanDepth - 11, FanDepth)

UniverseNames == {"term", "long", "wide", "lifo", "fifo", "sway"}

Universe(name) ==
    CASE name = "term" ->
           \* "", "$", "a", "a$", "ab": prefixes, extensions, the terminator byte
           [free |-> {<<>>, <<Dollar>>, <<97>>, <<97, Dollar>>, <<97, 98>>},
            script |-> <<>>, vals |-> {1, 2}]
      [] name = "long" ->
           \* keys that share more than maxPrefixLen bytes, keys that leave that
           \* prefix inside and beyond its explicit part, and the prefix itself
           [free |-> {LongPrefix \o <<120>>, LongPrefix \o <<121>>, LongPrefix,
                      SubSeq(LongPrefix, 1, LongLen - 1) \o <<122>>,
                      SubSeq(LongPrefix, 1, LongLen - 6) \o <<119>>},
            script |-> <<>>, vals |-> {1}]
      [] name = "wide" ->
           \* six one-byte keys in any order: Node4 <-> Node16
           [free |-> {<<b>> : b \in {0, 3, 36, 100, 200, 255}},
            script |-> <<>>, vals |-> {1}]
      [] name = "lifo" -> [free |-> {}, script |-> LifoScript, vals |-> {1}]
      [] name = "fifo" -> [free |-> {}, script |-> FifoScript, vals |-> {1}]
      [] name = "sway" -> [free |-> {}, script |-> SwayScript, vals |-> {1}]

ScriptKeys(u) == {u.script[i].key : i \in 1..Len(u.script)}
Keys(u) == u.free \cup ScriptKeys(u)

\* The kinds of the internal nodes of the tree under n.
RECURSIVE KindsIn(_)
KindsIn(n) ==
    IF n.kind \in {"nil", "leaf", "panic"} THEN {}
    ELSE {n.kind} \cup UNION {KindsIn(n.children[i]) : i \in DOMAIN n.children}

NoOp == [op |-> "none", key |-> <<>>, val |-> None, found |-> FALSE,
         out |-> None, outKey |-> <<>>, panic |-> FALSE, kinds |-> {},
         splice |-> NoSplice, since |-> NoSince]

VARIABLES
    universe,   \* the name of the key universe of this run (fixed by Init)
    leg,        \* the caller's position in the script of its universe
    root,       \* RadixTree.root: the root node, NIL when the tree is empty
    size,       \* RadixTree.size
    kv,         \* reference map: the value each key was last inserted with,
                \* None when never inserted or deleted since
    last        \* the last operation: its arguments, what it returned, and
                \* the kinds of the internal nodes it found in the tree

vars == <<universe, leg, root, size, kv, last>>

Init ==
    /\ universe \in UniverseNames
    /\ leg = 1
    /\ root = NIL
    /\ size = 0
    /\ kv = [k \in Keys(Universe(universe)) |-> None]
    /\ last = NoOp

\* The universe of this run.
U == Universe(universe)

\* The caller's next scripted operation, if any.
Scripted(op) ==
    IF leg <= Len(U.script) /\ U.script[leg].op = op
    THEN {U.script[leg].key} ELSE {}

\* The keys each operation may be called with now.
InsertKeys == U.free \cup Scripted("Insert")
DeleteKeys == U.free \cup Scripted("Delete")
GetKeys ==
    U.free
      \cup {U.script[i].key : i \in {leg - 1, leg} \cap (1..Len(U.script))}

ValuesOf(k) == U.vals

\* The caller's position after an operation on key k.
LegAfter(k) == IF k \in U.free THEN leg ELSE leg + 1

\* Insert(key, value) -> (previous, replaced)
Insert(k, v) ==
    /\ ~last.panic
    /\ LET r == recursiveInsert(root, getTreeKey(k), v, 0)
           sp == IF r.panic THEN NoSplice
                 ELSE SpliceOf(InsertSite(root, getTreeKey(k), 0), getTreeKey(k), v)
       IN  /\ root' = IF r.panic THEN root ELSE r.node
           /\ size' = IF r.panic \/ r.replaced THEN size ELSE size + 1
           /\ last' = [op |-> "Insert", key |-> k, val |-> v,
                       found |-> ~r.panic /\ r.replaced,
                       out |-> IF r.panic THEN None ELSE r.old,
                       outKey |-> <<>>, panic |-> r.panic, kinds |-> KindsIn(root), splice |-> sp,
                       since |-> SinceAfter(last.since, sp,
                                            sp.act = "none" /\ r.node # root)]
    /\ kv' = [kv EXCEPT ![k] = v]
    /\ leg' = LegAfter(k)
    /\ UNCHANGED universe

\* Delete(key) -> (removed, existed)
Delete(k) ==
    /\ ~last.panic
    /\ LET r == recursiveDelete(root, getTreeKey(k), 0)
           existed == ~r.panic /\ r.leaf.kind = "leaf"
           sp == IF r.panic THEN NoSplice
                 ELSE SpliceOf(DeleteSite(root, getTreeKey(k), 0), getTreeKey(k), None)
       IN  /\ root' = IF r.panic THEN root ELSE r.node
           /\ size' = IF existed THEN size - 1 ELSE size
           /\ last' = [op |-> "Delete", key |-> k, val |-> None,
                       found |-> existed,
                       out |-> IF existed THEN r.leaf.value ELSE None,
                       outKey |-> <<>>, panic |-> r.panic, kinds |-> KindsIn(root), splice |-> sp,
                       since |-> SinceAfter(last.since, sp,
                                            \/ sp.act = "none" /\ r.node # root
                                            \/ sp.from = "node4" /\ sp.count = 2)]
    /\ kv' = [kv EXCEPT ![k] = None]
    /\ leg' = LegAfter(k)
    /\ UNCHANGED universe

\* Get(key) -> (value, found)
Get(k) ==
    /\ ~last.panic
    /\ LET r == GetIn(root, k)
       IN  last' = [op |-> "Get", key |-> k, val |-> None, found |-> r.found,
                    out |-> r.value, outKey |-> <<>>, panic |-> FALSE,
                    kinds |-> KindsIn(root), splice |-> NoSplice, since |-> last.since]
    /\ UNCHANGED <<universe, leg, root, size, kv>>

\* Minimum() -> (key, value)?
Minimum ==
    /\ ~last.panic
    /\ LET r == MinimumIn(root)
       IN  last' = [op |-> "Minimum", key |-> <<>>, val |-> None, found |-> r.found,
                    out |-> r.value, outKey |-> r.key, panic |-> r.panic,
                    kinds |-> KindsIn(root), splice |-> NoSplice, since |-> last.since]
    /\ UNCHANGED <<universe, leg, root, size, kv>>

\* Maximum() -> (key, value)?
Maximum ==
    /\ ~last.panic
    /\ LET r == MaximumIn(root)
       IN  last' = [op |-> "Maximum", key |-> <<>>, val |-> None, found |-> r.found,
                    out |-> r.value, outKey |-> r.key, panic |-> r.panic,
                    kinds |-> KindsIn(root), splice |-> NoSplice, since |-> last.since]
    /\ UNCHANGED <<universe, leg, root, size, kv>>

\* Len() -> integer
LenOp ==
    /\ ~last.panic
    /\ last' = [op |-> "Len", key |-> <<>>, val |-> None, found |-> TRUE,
                out |-> size, outKey |-> <<>>, panic |-> FALSE,
                kinds |-> KindsIn(root), splice |-> NoSplice, since |-> last.since]
    /\ UNCHANGED <<universe, leg, root, size, kv>>

Next ==
    \/ \E k \in InsertKeys : \E v \in ValuesOf(k) : Insert(k, v)
    \/ \E k \in DeleteKeys : Delete(k)
    \/ \E k \in GetKeys : Get(k)
    \/ Minimum
    \/ Maximum
    \/ LenOp

Spec == Init /\ [][Next]_vars

\* The operations of a caller that never deletes.
NextInsertOnly ==
    \/ \E k \in InsertKeys : \E v \in ValuesOf(k) : Insert(k, v)
    \/ \E k \in GetKeys : Get(k)
    \/ Minimum
    \/ Maximum
    \/ LenOp

SpecInsertOnly == Init /\ [][NextInsertOnly]_vars

\* ------------------------------------------------------------------- claims
AllKeys == Keys(U)
Present == {k \in AllKeys : kv[k] # None}

IsPrefix(a, b) == Len(a) <= Len(b) /\ SubSeq(b, 1, Len(a)) = a
StrictPrefix(a, b) == Len(a) < Len(b) /\ IsPrefix(a, b)

\* a <= b in byte-lexicographic order.
RECURSIVE LexLeq(_, _)
LexLeq(a, b) ==
    IF Len(a) = 0 THEN TRUE
    ELSE IF Len(b) = 0 THEN FALSE
    ELSE IF a[1] # b[1] THEN a[1] < b[1]
    ELSE LexLeq(Tail(a), Tail(b))

\* C1: after any sequence of Insert calls on an initially empty tree, no Insert
\* having aborted, Get(k) returns (v, true) for every inserted key k, v the
\* value of the last Insert of k, and Len() is the number of distinct keys
\* inserted.  (Checked under SpecInsertOnly, where kv is exactly that map.)
C1_RoundTrip ==
    /\ ~(last.op = "Insert" /\ last.panic)
    /\ \A k \in Present : GetIn(root, k) = SearchResult(TRUE, kv[k])
    /\ size = Cardinality(Present)

\* C2: Delete(k) followed by Get(k) returns not-found, and Len() after the
\* Delete is one less than before if k was present and the same if it was not.
C2_DeleteThenAbsent ==
    [][last'.op = "Delete" =>
         /\ ~last'.panic
         /\ ~GetIn(root', last'.key).found
         /\ size' = IF GetIn(root, last'.key).found THEN size - 1 ELSE size
         /\ last'.found = GetIn(root, last'.key).found]_vars

\* A Delete removed a key from a tree that keeps other keys.
C2_Witness ==
    /\ last.op = "Delete" /\ last.found
    /\ ~GetIn(root, last.key).found
    /\ size > 0

\* C3: Delete(k) leaves the result of Get(k2) unchanged for every key k2 # k.
C3_DeleteFrame ==
    [][last'.op = "Delete" =>
         \A k2 \in AllKeys \ {last'.key} : GetIn(root', k2) = GetIn(root, k2)]_vars

\* A Delete demoted the Node256 to a Node48 and the other keys are still found.
C3_Witness ==
    /\ last.op = "Delete" /\ last.found
    /\ "node256" \in last.kinds
    /\ "node256" \notin KindsIn(root) /\ "node48" \in KindsIn(root)
    /\ \E k \in Present : GetIn(root, k).found

\* C4: on a non-empty tree Minimum().key <= k <= Maximum().key in
\* byte-lexicographic order of the application keys, for every key k present.
C4_Ordering ==
    (~last.panic /\ Present # {}) =>
        LET mn == MinimumIn(root)
            mx == MaximumIn(root)
        IN  /\ mn.found /\ mx.found
            /\ \A k \in Present : LexLeq(mn.key, k) /\ LexLeq(k, mx.key)

\* C5: inserting a key that is already present returns the value stored for it
\* with replaced = true, stores the new value, and leaves Len() and the value
\* of every other key unchanged.
C5_Update ==
    [][(last'.op = "Insert" /\ GetIn(root, last'.key).found) =>
         /\ ~last'.panic
         /\ last'.found
         /\ last'.out = GetIn(root, last'.key).value
         /\ GetIn(root', last'.key) = SearchResult(TRUE, last'.val)
         /\ size' = size
         /\ \A k2 \in AllKeys \ {last'.key} : GetIn(root', k2) = GetIn(root, k2)]_vars

\* An Insert replaced a value by a different one in a tree with other keys.
C5_Witness ==
    /\ last.op = "Insert" /\ last.found
    /\ last.out # last.val
    /\ GetIn(root, last.key) = SearchResult(TRUE, last.val)
    /\ size >= 2

\* The tree an insert-only caller builds for the map kv: the present keys
\* inserted in ascending order into the empty tree.
RECURSIVE InsertAll(_, _)
InsertAll(n, ks) ==
    IF ks = {} THEN n
    ELSE LET k == CHOOSE x \in ks : \A y \in ks : LexLeq(x, y)
         IN  InsertAll(recursiveInsert(n, getTreeKey(k), kv[k], 0).node, ks \ {k})

\* C6: two sequences of operations that end with the same map yield the same
\* Get, Minimum() and Maximum() results: the tree reached gives the results of
\* the tree built for the same map by inserts alone.
C6_Transparency ==
    ~last.panic =>
        LET other == InsertAll(NIL, Present)
        IN  /\ \A k \in AllKeys : GetIn(root, k) = GetIn(other, k)
            /\ MinimumIn(root) = MinimumIn(other)
            /\ MaximumIn(root) = MaximumIn(other)

\* The internal nodes of the tree under n.
RECURSIVE InternalNodes(_)
InternalNodes(n) ==
    IF n.kind \in {"nil", "leaf", "panic"} THEN {}
    ELSE {n} \cup UNION {InternalNodes(ChildAt(n, b)) : b \in ChildBytes(n)}

\* The leaf reached through the child with the smallest (largest) key byte at
\* each level.
RECURSIVE LeafByBytes(_, _)
LeafByBytes(n, smallest) ==
    IF n.kind = "leaf" THEN n
    ELSE LET bs == ChildBytes(n)
             b == IF smallest THEN CHOOSE x \in bs : \A y \in bs : x <= y
                  ELSE CHOOSE x \in bs : \A y \in bs : y <= x
         IN  LeafByBytes(ChildAt(n, b), smallest)

\* C7: for every internal node of every variant, minimum returns the leaf
\* reached through the smallest key byte at each level and maximum the leaf
\* reached through the largest, and both end at a leaf.
C7_MinMaxByBytes ==
    \A n \in InternalNodes(root) :
        /\ minimum(n) = LeafByBytes(n, TRUE)
        /\ maximum(n) = LeafByBytes(n, FALSE)

\* C8: for every key that is not stored, Get returns found = false, as a
\* normal result.
C8_AbsentNotFound ==
    /\ \A k \in AllKeys : kv[k] = None => GetIn(root, k) = SearchResult(FALSE, None)
    /\ (last.op = "Get" /\ kv[last.key] = None) => (~last.found /\ ~last.panic)

\* A Get of a key that agrees with the first maxPrefixLen bytes of the root's
\* prefix and leaves it beyond them returned not-found.
C8_Witness ==
    /\ last.op = "Get" /\ ~last.found
    /\ root.kind = "node4" /\ root.partialLen > maxPrefixLen
    /\ LET key == getTreeKey(last.key)
       IN  /\ checkPrefix(root, key, Len(key), 0) = maxPrefixLen
           /\ prefixMismatch(root, key, Len(key), 0) < root.partialLen

\* Where the descent of Delete for key stops in the tree under n.
RECURSIVE DeleteStop(_, _, _)
DeleteStop(n, key, depth) ==
    IF n.kind = "nil" THEN "empty"
    ELSE IF isLeaf(n)
    THEN IF leafMatches(n, key, Len(key)) = 0 THEN "hit" ELSE "leaf"
    ELSE IF n.partialLen > 0
            /\ checkPrefix(n, key, Len(key), depth) # min(maxPrefixLen, n.partialLen)
    THEN "prefix"
    ELSE LET d == depth + n.partialLen
         IN  IF d >= Len(key) \/ findChild(n, At(key, d)) < 0 THEN "child"
             ELSE DeleteStop(n.children[findChild(n, At(key, d))], key, d + 1)

\* C9: Delete of a key that is not in the tree returns existed = false and
\* leaves the whole tree state (root, every node, Len()) unchanged.
C9_DeleteAbsentNoOp ==
    [][(last'.op = "Delete" /\ kv[last'.key] = None) =>
         /\ ~last'.panic /\ ~last'.found
         /\ root' = root
         /\ size' = size]_vars

\* A Delete whose descent stopped at a leaf with a different key, below an
\* internal node, left the tree as it was.
C9_Witness ==
    /\ last.op = "Delete" /\ ~last.found
    /\ root.kind = "node4"
    /\ DeleteStop(root, getTreeKey(last.key), 0) = "leaf"

\* C10: for two distinct application keys, the stored key of one is never a
\* strict prefix of the stored key of the other (stated of the key of every
\* Insert against the keys in the map).
C10_PrefixFree ==
    last.op = "Insert" =>
        \A k2 \in Present \ {last.key} :
            /\ ~StrictPrefix(getTreeKey(last.key), getTreeKey(k2))
            /\ ~StrictPrefix(getTreeKey(k2), getTreeKey(last.key))

\* The child slots of n that are not empty, over its whole children array.
UsedSlots(n) == {i \in DOMAIN n.children : n.children[i].kind # "nil"}

\* C11: after every completed Insert or Delete, numChildren of every internal
\* node equals the number of non-empty slots of its whole children array.
C11_NumChildrenCountsSlots ==
    ~last.panic =>
        \A n \in InternalNodes(root) : n.numChildren = Cardinality(UsedSlots(n))

\* The fewest and the most children a node of each kind may hold.
FillOf(kind) ==
    CASE kind = "node4" -> [lo |-> 2, hi |-> 4]
      [] kind = "node16" -> [lo |-> 4, hi |-> 16]
      [] kind = "node48" -> [lo |-> 13, hi |-> 48]
      [] kind = "node256" -> [lo |-> 38, hi |-> 256]

\* C12: after every completed Insert or Delete every Node4 has 2..4 children,
\* every Node16 4..16, every Node48 13..48 and every Node256 38..256, counted
\* by numChildren and by the key bytes that lead to a child.
C12_Fill ==
    ~last.panic =>
        \A n \in InternalNodes(root) :
            /\ FillOf(n.kind).lo <= n.numChildren
            /\ n.numChildren <= FillOf(n.kind).hi
            /\ Cardinality(ChildBytes(n)) = n.numChildren

\* A Delete left a Node48 with 13 children, the fewest it may hold.
C12_Witness ==
    /\ last.op = "Delete" /\ last.found
    /\ \E n \in InternalNodes(root) : n.kind = "node48" /\ n.numChildren = 13

\* The internal nodes of the tree under n, each with the offset in the key at
\* which its prefix starts.
RECURSIVE Placed(_, _)
Placed(n, depth) ==
    IF n.kind \in {"nil", "leaf", "panic"} THEN {}
    ELSE {[node |-> n, depth |-> depth]}
           \cup UNION {Placed(ChildAt(n, b), depth + n.partialLen + 1) :
                         b \in ChildBytes(n)}

\* The leaves of the tree under n.
RECURSIVE LeavesOf(_)
LeavesOf(n) ==
    IF n.kind = "leaf" THEN {n}
    ELSE IF n.kind \in {"nil", "panic"} THEN {}
    ELSE UNION {LeavesOf(ChildAt(n, b)) : b \in ChildBytes(n)}

\* C13: in every Node4 and Node16 the first numChildren entries of keys are
\* strictly ascending and children[i] is the child for keys[i]: it is not
\* empty and every key stored under it has the byte keys[i] at the node's
\* branching offset.
C13_SortedKeys ==
    \A p \in Placed(root, 0) :
        p.node.kind \in {"node4", "node16"} =>
            LET n == p.node
                live == {i \in DOMAIN n.keys : i < n.numChildren}
            IN  /\ \A i, j \in live : i < j => n.keys[i] < n.keys[j]
                /\ \A i \in live :
                     /\ n.children[i].kind # "nil"
                     /\ \A l \in LeavesOf(n.children[i]) :
                          /\ InRange(l.key, p.depth + n.partialLen)
                          /\ At(l.key, p.depth + n.partialLen) = n.keys[i]

\* A Delete shrank a Node48 to a Node16 with 12 children.
C13_Witness ==
    /\ last.op = "Delete" /\ last.found
    /\ "node48" \in last.kinds /\ "node48" \notin KindsIn(root)
    /\ \E n \in InternalNodes(root) : n.kind = "node16" /\ n.numChildren = 12

\* C14: ownership is tree-shaped: no two slots of a node's storage refer to
\* the same node, and no slot of a node in the tree refers to a leaf that a
\* Delete removed.
C14_TreeShapedOwnership ==
    ~last.panic =>
        \A n \in InternalNodes(root) :
            /\ \A i, j \in UsedSlots(n) : i # j => n.children[i] # n.children[j]
            /\ \A i \in UsedSlots(n) :
                 n.children[i].kind = "leaf" => kv[getKey(n.children[i].key)] # None

\* C15: getKey(getTreeKey(k)) = k and getTreeKey(k) is one byte longer than k
\* for every key k, the empty key included, so that the key returned by
\* Minimum() and Maximum() is a key that was passed to Insert.
C15_CodecRoundTrip ==
    /\ \A k \in AllKeys :
         /\ getKey(getTreeKey(k)) = k
         /\ Len(getTreeKey(k)) = Len(k) + 1
    /\ (last.op \in {"Minimum", "Maximum"} /\ last.found) => last.outKey \in Present

\* Minimum() returned the empty key from a tree that holds other keys too.
C15_Witness ==
    /\ last.op = "Minimum" /\ last.found
    /\ last.outKey = <<>>
    /\ kv[<<>>] # None
    /\ size >= 2

\* C16: in every promotion and demotion the parent slot only ever shows a node
\* that has the children and the prefix of the node it replaces.
C16_SpliceAfterConstruction ==
    \A i \in 1..Len(last.splice.exposed) :
        /\ last.splice.exposed[i].kids = last.splice.replaced.kids
        /\ last.splice.exposed[i].partialLen = last.splice.replaced.partialLen
        /\ last.splice.exposed[i].partial = last.splice.replaced.partial

\* The byte-to-child mapping of an internal node and its explicit prefix bytes.
ChildMap(n) == [b \in ChildBytes(n) |-> ChildAt(n, b)]
PrefixOf(n) == [i \in 1..min(maxPrefixLen, n.partialLen) |-> n.partial[i - 1]]

\* A node that has no room for another child, and the kind that replaces it.
IsFull(n) ==
    \/ n.kind = "node4" /\ n.numChildren = 4
    \/ n.kind = "node16" /\ n.numChildren = 16
    \/ n.kind = "node48" /\ n.numChildren = 48
LargerKind(kind) ==
    CASE kind = "node4" -> "node16"
      [] kind = "node16" -> "node48"
      [] kind = "node48" -> "node256"
      [] OTHER -> kind

\* Key bytes tried on every node of the tree: below, between and above the
\* bytes the universes use.
ProbeBytes == {1, 5, 101, 254}

\* C17: addChild(n, c, child) with a byte c not present in n yields the old
\* byte-to-child mapping plus c -> child, numChildren + 1 and the same prefix;
\* the node keeps its kind when it has room and is replaced by the next larger
\* kind exactly when it is full.
C17_AddChild ==
    \A n \in InternalNodes(root) : \A c \in ProbeBytes \ ChildBytes(n) :
        LET child == makeLeaf(<<c, Dollar>>, 1)
            r == addChild(n, c, child)
        IN  /\ ChildMap(r) = [b \in ChildBytes(n) \cup {c} |->
                                IF b = c THEN child ELSE ChildAt(n, b)]
            /\ r.numChildren = n.numChildren + 1
            /\ r.partialLen = n.partialLen
            /\ PrefixOf(r) = PrefixOf(n)
            /\ r.kind = IF IsFull(n) THEN LargerKind(n.kind) ELSE n.kind

\* An Insert added the 49th child to a full Node48, which a Node256 replaced.
C17_Witness ==
    /\ last.op = "Insert" /\ ~last.panic
    /\ last.splice.act = "add"
    /\ last.splice.from = "node48" /\ last.splice.count = 48
    /\ last.splice.to = "node256"

\* A removal from n leaves the count at which its kind shrinks; the kind that
\* replaces it.
ShrinksOnRemoval(n) ==
    \/ n.kind = "node16" /\ n.numChildren - 1 = 3
    \/ n.kind = "node48" /\ n.numChildren - 1 = 12
    \/ n.kind = "node256" /\ n.numChildren - 1 = 37
SmallerKind(kind) ==
    CASE kind = "node16" -> "node4"
      [] kind = "node48" -> "node16"
      [] kind = "node256" -> "node48"
      [] OTHER -> kind

C19_Collapse ==
    \A n \in InternalNodes(root) :
        (n.kind = "node4" /\ n.numChildren = 2) =>
            \A c \in ChildBytes(n) : \A b \in ChildBytes(n) \ {c} :
                LET child == ChildAt(n, b)
                    r == removeChild(n, c, findChild(n, c))
                    newLen == n.partialLen + 1 + child.partialLen
                IN  ~isLeaf(child) =>
                        /\ r.kind = child.kind
                        /\ r.numChildren = child.numChildren
                        /\ ChildMap(r) = ChildMap(child)
                        /\ r.partialLen = newLen
                        /\ PrefixOf(r) = SubSeq(PrefixOf(n) \o <<b>> \o PrefixOf(child),
                                                1, min(maxPrefixLen, newLen))

\* A Delete left a Node4 with one internal child, which took its place with a
\* merged prefix longer than maxPrefixLen.
C19_Witness ==
    /\ last.op = "Delete" /\ last.found
    /\ last.splice.act = "remove"
    /\ last.splice.from = "node4" /\ last.splice.count = 2
    /\ last.splice.to \in {"node4", "node16", "node48", "node256"}
    /\ last.splice.toLen > maxPrefixLen

\* C20: a promotion is followed by at least 2 removals at its position (12 for
\* Node256 -> Node48) before that position is demoted, the demoting removal
\* included, and a demotion by at least 2 adds (12 for Node48 -> Node256)
\* before it is promoted, the promoting add included.
C20_Hysteresis ==
    [][LET sp == last'.splice
           h == last.since
       IN  (/\ h.dir # "none"
            /\ Resize(sp) \notin {"none", h.dir}
            /\ sp.pos = h.pos)
             => h.n + 1 >= CountedUpTo(h)]_vars

\* A Delete removed a child from the Node16 that the Insert before it had
\* promoted, and the node stayed a Node16.
C20_Witness ==
    /\ last.op = "Delete" /\ last.found
    /\ last.since.dir = "grow" /\ last.since.kind = "node16"
    /\ last.since.n = 1
    /\ last.splice.act = "remove" /\ last.splice.pos = last.since.pos
    /\ last.splice.count = 5
    /\ last.splice.to = "node16"

\* C21: for every internal node, at depth d with prefix length p: every leaf
\* beneath it has more than d + p key bytes and all of them agree on the bytes
\* [d, d + p); the first min(p, maxPrefixLen) of those bytes are the node's
\* explicit partial bytes; and every leaf beneath the child under key byte b
\* has the byte b at offset d + p.
C21_PrefixInvariant ==
    \A q \in Placed(root, 0) :
        LET n == q.node
            d == q.depth
            p == n.partialLen
            first == CHOOSE l \in LeavesOf(n) : TRUE
        IN  /\ LeavesOf(n) # {}
            /\ \A l \in LeavesOf(n) :
                 /\ InRange(l.key, d + p)
                 /\ \A i \in d..(d + p - 1) : At(l.key, i) = At(first.key, i)
                 /\ \A i \in 0..(min(p, maxPrefixLen) - 1) :
                      n.partial[i] = At(l.key, d + i)
            /\ \A b \in ChildBytes(n) : \A l \in LeavesOf(ChildAt(n, b)) :
                 At(l.key, d + p) = b

\* An Insert split a prefix longer than maxPrefixLen beyond its explicit
\* bytes: the new root Node4 carries more than maxPrefixLen prefix bytes and
\* the node it was split from hangs below it.
C21_Witness ==
    /\ last.op = "Insert" /\ ~last.panic
    /\ last.splice.act = "none"
    /\ root.kind = "node4" /\ root.numChildren = 2
    /\ root.partialLen > maxPrefixLen
    /\ \E b \in ChildBytes(root) : ~isLeaf(ChildAt(root, b))

\* The keys prefixMismatch is tried with on every node: every stored key of
\* the universe and every prefix of one (a key that ends inside a prefix).
ProbeKeys ==
    UNION {{SubSeq(getTreeKey(k), 1, j) : j \in 0..Len(getTreeKey(k))} :
             k \in AllKeys}

\* The p prefix bytes of the node n at depth d, as the leaves beneath it have
\* them.
LogicalPrefix(n, d) ==
    LET l == CHOOSE x \in LeavesOf(n) : TRUE
    IN  [i \in 0..(n.partialLen - 1) |-> At(l.key, d + i)]

\* C22: for every internal node, at depth d with prefix length p, and every
\* key of at least d bytes, prefixMismatch returns a value below p exactly
\* when the key differs from the node's p prefix bytes at an offset below p
\* or ends before offset p, and the value is then the first such offset; so
\* also when p > maxPrefixLen.
C22_PrefixMismatch ==
    \A q \in Placed(root, 0) :
        LET n == q.node
            d == q.depth
            p == n.partialLen
            full == LogicalPrefix(n, d)
        IN  \A key \in ProbeKeys :
                Len(key) >= d =>
                    LET r == prefixMismatch(n, key, Len(key), d)
                        diff == {i \in 0..(p - 1) :
                                   ~InRange(key, d + i) \/ At(key, d + i) # full[i]}
                    IN  /\ (r < p) <=> (diff # {})
                        /\ diff # {} => (r \in diff /\ \A i \in diff : r <= i)

\* A Delete left a root with more than maxPrefixLen prefix bytes, and the key
\* it removed leaves that prefix at its last byte, beyond the explicit ones.
C22_Witness ==
    /\ last.op = "Delete" /\ last.found
    /\ root.kind = "node4" /\ root.partialLen > maxPrefixLen
    /\ LET key == getTreeKey(last.key)
       IN  /\ prefixMismatch(root, key, Len(key), 0) = root.partialLen - 1
           /\ prefixMismatch(root, key, Len(key), 0) >= maxPrefixLen

\* Where an Insert of key splits in the tree under n: at a leaf with another
\* key ("leaf") or at an internal node whose prefix the key leaves ("prefix"),
\* with the node found there, its depth and the key bytes that lead to it.
NoSplit == [how |-> "none"]

RECURSIVE SplitSite(_, _, _, _)
SplitSite(n, key, depth, path) ==
    IF n.kind = "nil" THEN NoSplit
    ELSE IF isLeaf(n)
    THEN IF leafMatches(n, key, Len(key)) = 0 THEN NoSplit
         ELSE [how |-> "leaf", old |-> n, depth |-> depth, path |-> path]
    ELSE IF n.partialLen > 0 /\ prefixMismatch(n, key, Len(key), depth) < n.partialLen
    THEN [how |-> "prefix", old |-> n, depth |-> depth, path |-> path]
    ELSE LET d == depth + n.partialLen
         IN  IF ~InRange(key, d) \/ findChild(n, At(key, d)) < 0 THEN NoSplit
             ELSE SplitSite(ChildAt(n, At(key, d)), key, d + 1,
                            Append(path, At(key, d)))

\* The node reached from n through the children under the bytes of path.
RECURSIVE Follow(_, _)
Follow(n, path) ==
    IF path = <<>> THEN n ELSE Follow(ChildAt(n, Head(path)), Tail(path))

\* The number of bytes from offset depth on that the keys a and b share.
CommonLen(a, b, depth) ==
    LET same(i) == /\ InRange(a, depth + i) /\ InRange(b, depth + i)
                   /\ At(a, depth + i) = At(b, depth + i)
    IN  CHOOSE j \in 0..Len(a) : (\A i \in 0..(j - 1) : same(i)) /\ ~same(j)

\* The number of bytes from offset depth on that key shares with every key
\* stored under n.
CommonWith(n, key, depth) ==
    LET lens == {CommonLen(l.key, key, depth) : l \in LeavesOf(n)}
    IN  CHOOSE j \in lens : \A i \in lens : j <= i

\* C23: an Insert that splits at a leaf or at a prefix mismatch puts a Node4
\* in the place of the subtree found there; the Node4 has exactly two children
\* under two distinct key bytes, its partialLen is the length of the prefix
\* the key shares with that subtree from the current depth and its partial
\* the first min(maxPrefixLen, partialLen) bytes of it; one child is a new
\* leaf for the key, the other the subtree (a leaf unchanged, an internal node
\* with its children kept and its prefix shortened by the consumed bytes), and
\* Get still finds every key stored under that subtree.
C23_SplitShape ==
    [][LET key == getTreeKey(last'.key)
           st == SplitSite(root, key, 0, <<>>)
       IN  (last'.op = "Insert" /\ ~last'.panic /\ st.how # "none") =>
             LET new == Follow(root', st.path)
                 cl == CommonWith(st.old, key, st.depth)
                 c2 == At(key, st.depth + cl)
             IN  /\ new.kind = "node4"
                 /\ new.numChildren = 2
                 /\ Cardinality(UsedSlots(new)) = 2
                 /\ Cardinality(ChildBytes(new)) = 2
                 /\ new.partialLen = cl
                 /\ PrefixOf(new) = [i \in 1..min(maxPrefixLen, cl) |->
                                       At(key, st.depth + i - 1)]
                 /\ c2 \in ChildBytes(new)
                 /\ ChildAt(new, c2) = makeLeaf(key, last'.val)
                 /\ \A c1 \in ChildBytes(new) \ {c2} :
                      LET kept == ChildAt(new, c1)
                      IN  /\ \A l \in LeavesOf(st.old) : At(l.key, st.depth + cl) = c1
                          /\ LeavesOf(kept) = LeavesOf(st.old)
                          /\ IF st.how = "leaf" THEN kept = st.old
                             ELSE /\ kept.kind = st.old.kind
                                  /\ kept.numChildren = st.old.numChildren
                                  /\ ChildMap(kept) = ChildMap(st.old)
                                  /\ kept.partialLen = st.old.partialLen - cl - 1
                 /\ \A l \in LeavesOf(st.old) :
                      search(root', l.key, 0) = SearchResult(TRUE, l.value)]_vars

\* An Insert split a leaf below the root: an internal node at depth > 0 has
\* exactly the new leaf and one other leaf as its children.
C23_Witness ==
    /\ last.op = "Insert" /\ ~last.panic /\ ~last.found
    /\ last.splice.act = "none"
    /\ \E q \in Placed(root, 0) :
         /\ q.depth > 0
         /\ q.node.kind = "node4" /\ q.node.numChildren = 2
         /\ \A b \in ChildBytes(q.node) : isLeaf(ChildAt(q.node, b))
         /\ \E b \in ChildBytes(q.node) :
              ChildAt(q.node, b) = makeLeaf(getTreeKey(last.key), last.val)

\* C24: every Node48 has a consistent index: each non-zero keys[b] is in 1..48
\* and refers to a non-empty children slot, distinct key bytes refer to
\* distinct slots, every non-empty slot is referred to by exactly one key
\* byte, and the number of non-zero index entries is numChildren.
C24_Node48Index ==
    \A n \in InternalNodes(root) :
        n.kind = "node48" =>
            LET used == {b \in 0..255 : n.keys[b] # 0}
            IN  /\ \A b \in used :
                     /\ n.keys[b] \in 1..48
                     /\ n.children[n.keys[b] - 1].kind # "nil"
                /\ \A b1, b2 \in used : b1 # b2 => n.keys[b1] # n.keys[b2]
                /\ \A i \in UsedSlots(n) :
                     Cardinality({b \in used : n.keys[b] - 1 = i}) = 1
                /\ Cardinality(used) = n.numChildren

\* An Insert added a child to a Node48 in a slot that a removal had freed: the
\* slot of the new leaf is not the last one in use.
C24_Witness ==
    /\ last.op = "Insert" /\ ~last.panic
    /\ last.splice.act = "add"
    /\ last.splice.from = "node48" /\ last.splice.to = "node48"
    /\ \E n \in InternalNodes(root) :
         /\ n.kind = "node48"
         /\ \E b \in ChildBytes(n) :
              /\ ChildAt(n, b) = makeLeaf(getTreeKey(last.key), last.val)
              /\ n.keys[b] < n.numChildren

\* The node that the descent for key reaches at offset target in the tree
\* under n (depth is the offset at which the prefix of n starts).
RECURSIVE AtDepth(_, _, _, _)
AtDepth(n, key, depth, target) ==
    IF depth >= target \/ n.kind \in {"nil", "leaf", "panic"} THEN n
    ELSE AtDepth(ChildAt(n, At(key, depth + n.partialLen)), key,
                 depth + n.partialLen + 1, target)

\* C25: when a Delete removes one of the two children of a Node4 and the
\* other is a leaf, that leaf stands in the place of the Node4 afterwards,
\* with its key, value and header as they were, and removeChild returns it
\* so.
C25_LeafCollapse ==
    [][LET key == getTreeKey(last'.key)
           st == DeleteSite(root, key, 0)
       IN  (/\ last'.op = "Delete" /\ ~last'.panic
            /\ st.act = "remove"
            /\ st.node.kind = "node4" /\ st.node.numChildren = 2)
             => \A b \in ChildBytes(st.node) \ {st.c} :
                    isLeaf(ChildAt(st.node, b)) =>
                        /\ removeChild(st.node, st.c, st.slot) = ChildAt(st.node, b)
                        /\ AtDepth(root', key, 0, Len(st.pos)) = ChildAt(st.node, b)
                        /\ AtDepth(root, key, 0, Len(st.pos)) = st.node]_vars

\* A Delete below the root left a Node4 with one leaf, which took its place
\* in the slot of the node above.
C25_Witness ==
    /\ last.op = "Delete" /\ last.found
    /\ last.splice.act = "remove"
    /\ last.splice.from = "node4" /\ last.splice.count = 2
    /\ last.splice.to = "leaf"
    /\ last.splice.pos # <<>>

\* What an Insert of key did to the tree under o, which is n afterwards:
\* whether everything off the path of the key is as it was (ok), and the
\* number of places that got a different node (count).  A place is the root
\* reference or the child under one key byte of a node that was in the tree
\* before; a leaf whose value was overwritten, and a node that got a child or
\* a child of which changed, are the same node as before.
RECURSIVE InsertFrame(_, _, _, _)
InsertFrame(o, n, key, depth) ==
    IF o = n THEN [ok |-> TRUE, count |-> 0]
    ELSE IF o.kind = "nil" THEN [ok |-> isLeaf(n) /\ n.key = key, count |-> 1]
    ELSE IF isLeaf(o)
    THEN IF isLeaf(n)
         THEN [ok |-> n.key = o.key /\ n.key = key, count |-> 0]
         ELSE [ok |-> /\ n.kind = "node4"
                      /\ \E b \in ChildBytes(n) : ChildAt(n, b) = o,
               count |-> 1]
    ELSE IF n.kind \in {"nil", "leaf", "panic"} THEN [ok |-> FALSE, count |-> 1]
    ELSE IF n.partialLen # o.partialLen
    THEN \* a Node4 in front of o, whose prefix was trimmed
         [ok |-> /\ n.kind = "node4"
                 /\ \E b \in ChildBytes(n) :
                      /\ ChildAt(n, b).kind = o.kind
                      /\ ChildMap(ChildAt(n, b)) = ChildMap(o),
          count |-> 1]
    ELSE
    LET c == At(key, depth + o.partialLen)
        same == {b \in ChildBytes(o) \cap ChildBytes(n) : ChildAt(n, b) = ChildAt(o, b)}
    IN  IF n.kind # o.kind
        THEN \* a larger node in the place of o
             [ok |-> /\ same = ChildBytes(o)
                     /\ ChildBytes(n) = ChildBytes(o) \cup {c}
                     /\ PrefixOf(n) = PrefixOf(o),
              count |-> 1]
        ELSE IF c \in ChildBytes(o)
        THEN LET below == InsertFrame(ChildAt(o, c), ChildAt(n, c), key,
                                      depth + o.partialLen + 1)
             IN  [ok |-> /\ ChildBytes(n) = ChildBytes(o)
                         /\ ChildBytes(o) \ same \subseteq {c}
                         /\ PrefixOf(n) = PrefixOf(o)
                         /\ below.ok,
                  count |-> below.count]
        ELSE [ok |-> /\ same = ChildBytes(o)
                     /\ ChildBytes(n) = ChildBytes(o) \cup {c}
                     /\ PrefixOf(n) = PrefixOf(o),
              count |-> 1]

\* The number of array slots of the nodes that were in the tree before an
\* Insert of key (and of the root reference) that hold a different node
\* afterwards; o is the tree before and n the tree after.
RECURSIVE SlotsReassigned(_, _, _, _)
SlotsReassigned(o, n, key, depth) ==
    IF o = n THEN 0
    ELSE IF o.kind = "nil" THEN 1
    ELSE IF isLeaf(o) THEN (IF isLeaf(n) THEN 0 ELSE 1)
    ELSE IF n.kind # o.kind \/ n.partialLen # o.partialLen THEN 1
    ELSE LET on == findChild(o, At(key, depth + o.partialLen))
             moved == {i \in DOMAIN o.children : o.children[i] # n.children[i]}
         IN  IF on < 0 THEN Cardinality(moved)
             ELSE Cardinality(moved \ {on})
                    + SlotsReassigned(o.children[on], n.children[on], key,
                                      depth + o.partialLen + 1)

\* C26 as stated: an Insert changes only nodes on the path of its key, leaves
\* every subtree off that path unchanged and gives at most one child slot (or
\* the root reference) a different node.
C26_OneSlot ==
    [][(last'.op = "Insert" /\ ~last'.panic) =>
         /\ InsertFrame(root, root', getTreeKey(last'.key), 0).ok
         /\ SlotsReassigned(root, root', getTreeKey(last'.key), 0) <= 1]_vars

\* C26, amended: an Insert changes only nodes on the path of its key, leaves
\* every subtree off that path unchanged and gives at most one place (the
\* root reference, or the child under one key byte of one node) a different
\* node.
C26_InsertFrame ==
    [][(last'.op = "Insert" /\ ~last'.panic) =>
         LET r == InsertFrame(root, root', getTreeKey(last'.key), 0)
         IN  r.ok /\ r.count <= 1]_vars

\* An Insert put a new leaf into the first slot of a Node4 that had two or
\* more children, which moved up.
C26_Witness ==
    /\ last.op = "Insert" /\ ~last.panic
    /\ last.splice.act = "add"
    /\ last.splice.from = "node4" /\ last.splice.to = "node4"
    /\ last.splice.count >= 2
    /\ \E n \in InternalNodes(root) :
         /\ n.kind = "node4"
         /\ n.children[0] = makeLeaf(getTreeKey(last.key), last.val)

\* C27: no operation reaches a fatal path: no Insert, Delete, Get, Minimum()
\* or Maximum() ends in a panic (addChild or removeChild on a leaf or on an
\* unknown kind, removeChild of a child that is not in the node, an array or
\* key index out of range).
C27_NoFatalPath == ~last.panic

\* The number of times the descent for key moves from a node to a child in
\* the tree under n; each move takes the depth from depth to
\* depth + partialLen + 1.
RECURSIVE DescentSteps(_, _, _)
DescentSteps(n, key, depth) ==
    IF n.kind = "nil" \/ isLeaf(n) THEN 0
    ELSE IF n.partialLen > 0
            /\ checkPrefix(n, key, Len(key), depth) # min(maxPrefixLen, n.partialLen)
    THEN 0
    ELSE LET d == depth + n.partialLen
         IN  IF d >= Len(key) \/ findChild(n, At(key, d)) < 0 THEN 0
             ELSE 1 + DescentSteps(n.children[findChild(n, At(key, d))], key, d + 1)

\* The number of nodes on the longest path from n down to a leaf.
RECURSIVE Height(_)
Height(n) ==
    IF n.kind \in {"nil", "panic"} THEN 0
    ELSE IF isLeaf(n) THEN 1
    ELSE LET hs == {Height(ChildAt(n, b)) : b \in ChildBytes(n)}
         IN  1 + (CHOOSE h \in hs : \A g \in hs : g <= h)

\* C28: every operation terminates: the descent for a key makes at most as
\* many moves as the key has bytes, a tree is no higher than its longest key
\* allows, and minimum and maximum on every non-empty subtree end at a leaf,
\* not at nil and not in a panic.
C28_Termination ==
    /\ \A k \in AllKeys :
         DescentSteps(root, getTreeKey(k), 0) <= Len(getTreeKey(k))
    /\ Present # {} => \E k \in Present : Height(root) <= Len(getTreeKey(k)) + 1
    /\ \A n \in InternalNodes(root) :
         /\ minimum(n).kind = "leaf"
         /\ maximum(n).kind = "leaf"
====
